---- MODULE Spec2Model ----
(***************************************************************************)
(* Streaming sequence-buffer inference pipeline of deaf_app.               *)
(*                                                                         *)
(* Three programs of the repository implement the pipeline:                *)
(*   "server"      src/Backend/server.py              (simple variant)     *)
(*   "bridge"      src/Models/app_integration/model_bridge.py (simple)     *)
(*   "recognizer"  src/SignRecignition/src/inference/predict.py, served by *)
(*                 src/SignRecignition/api/app.py     (stabilized variant) *)
(* The variable `program` says which of them a behaviour is a run of.      *)
(*                                                                         *)
(* Probabilities are integers in percent (0.7 is 70).  Python indices are  *)
(* 0-based and kept 0-based; Python lists are TLA+ sequences (1-based).    *)
(***************************************************************************)
EXTENDS Integers, Sequences, FiniteSets, TLC

VARIABLES
    program,               \* which of the three programs is running
    phase,                 \* "startup" | "serving" | "failed"
    model,                 \* server.py / model_bridge.py global `model`
    normalization_params,  \* server.py global `normalization_params`
    sequence_buffer,       \* server.py / model_bridge.py global `sequence_buffer`
    recognizer,            \* app.py global `recognizer` (a SignLanguageRecognizer or None)
    response,              \* what the last call returned or raised
    ingested,              \* history: vectors pushed since the last reset
    streak,                \* history: classifier ticks seen by the stabilizer since the last reset
    fresh,                 \* history: a newly constructed recognizer fed the inputs since the last reset
    fresh_response,        \* history: what `fresh` answered to the last call
    ever,                  \* history: [high, emitted, reset] since the process started
    clients,               \* the HTTP clients that send requests to the application
    client,                \* history: the client that sent the last request
    owners,                \* history: for each vector of `ingested`, the client that sent it
    extracted,             \* the last call of an extractor made on its own: input and result
    inflight               \* the uploads of the /predict/frame requests suspended in file.read()

vars == <<program, phase, model, normalization_params, sequence_buffer, recognizer,
          response, ingested, streak, fresh, fresh_response, ever, clients, client, owners,
          extracted, inflight>>

(***************************************************************************)
(* Bounds of the model.  The window lengths, the landmark counts and the   *)
(* stabilizer's thresholds are the program's, scaled down: the program has *)
(* SEQUENCE_LENGTH = 30, max_frames = 30, 33 pose, 468 face and 21 hand    *)
(* landmarks, stable_threshold = 5 and cooldown_threshold = 10.            *)
(* MaxIngest bounds the frames pushed between two resets, MaxTicks the     *)
(* confident classifier ticks between two resets; MaxIngestClients and     *)
(* MaxTicksClients bound the same in the runs with more than one client.   *)
(* MaxInflight bounds the uploads that are being read at the same time.    *)
(***************************************************************************)
SEQUENCE_LENGTH == 2
max_frames == 2
PoseLandmarks == 1
FaceLandmarks == 1
HandLandmarks == 1
stable_threshold == 2
cooldown_threshold == 3
MaxIngest == 3
MaxTicks == 4
MaxIngestClients == 2
MaxTicksClients == 2
MaxInflight == 2

(***************************************************************************)
(* Program constants (probabilities in percent).                           *)
(***************************************************************************)
PREDICTION_THRESHOLD == 70
confidence_threshold == 70

\* The 1e-8 added to std by the normalization is 1 / EPSILON_INV
EPSILON_INV == 100000000

\* config.py ACTIONS (a reserved word of TLA+, hence the underscore), three of its labels
ACTIONS_ == <<"A", "B", "C">>
\* label_encoder.classes_ of the recognizer
classes_ == <<"A", "B", "C">>

None == "None"

(***************************************************************************)
(* Helpers for Python list and numpy semantics.                            *)
(***************************************************************************)
Min(a, b) == IF a <= b THEN a ELSE b

zeros(n) == [i \in 1..n |-> 0]

full(n, v) == [i \in 1..n |-> v]

\* lst[:n] in place of lst[-n:]: the window keeps its oldest vectors
FirstN(lst, n) == IF Len(lst) <= n THEN lst ELSE SubSeq(lst, 1, n)

\* lst[-n:] for n > 0
LastN(lst, n) == IF Len(lst) <= n THEN lst ELSE SubSeq(lst, Len(lst) - n + 1, Len(lst))

\* np.argmax: the 0-based index of the first maximum
argmax(prediction) ==
    (CHOOSE i \in 1..Len(prediction) :
        /\ \A j \in 1..Len(prediction) : prediction[j] <= prediction[i]
        /\ \A j \in 1..(i - 1) : prediction[j] < prediction[i]) - 1

\* dict(zip(labels, prediction)), kept as the sequence of its items
zip_probs(labels, prediction) ==
    [i \in 1..Min(Len(labels), Len(prediction)) |-> <<labels[i], prediction[i]>>]

(***************************************************************************)
(* Keypoint extraction.                                                    *)
(***************************************************************************)
KEYPOINT_DIMENSIONS == PoseLandmarks * 4 + FaceLandmarks * 3 + HandLandmarks * 3 + HandLandmarks * 3

\* extract_keypoints that leaves out the groups that were not detected
extract_keypoints_omits_absent(results) ==
    (IF results.pose_landmarks # 0
     THEN full(PoseLandmarks * 4, results.pose_landmarks) ELSE <<>>)
    \o (IF results.face_landmarks # 0
        THEN full(FaceLandmarks * 3, results.face_landmarks) ELSE <<>>)
    \o (IF results.left_hand_landmarks # 0
        THEN full(HandLandmarks * 3, results.left_hand_landmarks) ELSE <<>>)
    \o (IF results.right_hand_landmarks # 0
        THEN full(HandLandmarks * 3, results.right_hand_landmarks) ELSE <<>>)

\* utils/mediapipe_utils.py extract_keypoints: `results` says which landmark
\* groups were detected; a detected group's coordinates are the value it carries.
extract_keypoints(results) ==
    LET pose == IF results.pose_landmarks # 0
                THEN full(PoseLandmarks * 4, results.pose_landmarks)
                ELSE zeros(PoseLandmarks * 4)
        face == IF results.face_landmarks # 0
                THEN full(FaceLandmarks * 3, results.face_landmarks)
                ELSE zeros(FaceLandmarks * 3)
        lh == IF results.left_hand_landmarks # 0
              THEN full(HandLandmarks * 3, results.left_hand_landmarks)
              ELSE zeros(HandLandmarks * 3)
        rh == IF results.right_hand_landmarks # 0
              THEN full(HandLandmarks * 3, results.right_hand_landmarks)
              ELSE zeros(HandLandmarks * 3)
    IN pose \o face \o lh \o rh

HAND_KEYPOINTS == HandLandmarks * 2 * 2

\* preprocessing/extract_keypoints.py extract_hand_keypoints: `hands` is the
\* list multi_hand_landmarks, each hand a record [label, xy] of its handedness
\* and the coordinate value of its landmarks.
RECURSIVE fill_hands(_, _, _)
fill_hands(keypoints, hands, hand_idx) ==
    IF hand_idx >= Len(hands) \/ hand_idx >= 2
    THEN keypoints
    ELSE LET hand == hands[hand_idx + 1]
             hand_offset == IF hand.label = "Left" THEN 0 ELSE HandLandmarks * 2
         IN fill_hands(
                [k \in 1..Len(keypoints) |->
                    IF k - 1 >= hand_offset /\ k - 1 < hand_offset + HandLandmarks * 2
                    THEN hand.xy ELSE keypoints[k]],
                hands, hand_idx + 1)

extract_hand_keypoints(hands) == fill_hands(zeros(HAND_KEYPOINTS), hands, 0)

(***************************************************************************)
(* What a call hands back.  `raised` says that the function raised instead *)
(* of returning; `scores` is the classifier output the call used, if any.  *)
(***************************************************************************)
Result(action, confidence, all_probabilities, error) ==
    [action |-> action, confidence |-> confidence,
     all_probabilities |-> all_probabilities, error |-> error]

NoResult == Result("", 0, <<>>, FALSE)

\* What a classifier call does: it raises, or it returns `scores`.
Raises == [raises |-> TRUE, scores |-> <<>>]

Returns(scores) == [raises |-> FALSE, scores |-> scores]

(***************************************************************************)
(* src/Backend/server.py                                                   *)
(***************************************************************************)
\* Python's None in `model`, and a loaded model with `outputs` output units
NoModel == [loaded |-> FALSE, outputs |-> 0]

Loaded(outputs) == [loaded |-> TRUE, outputs |-> outputs]

\* Python's None in `normalization_params`
NoParams == [loaded |-> FALSE, mean |-> 0, std |-> 0]

DefaultParams == [loaded |-> TRUE, mean |-> 0, std |-> 1]

FileParams == [loaded |-> TRUE, mean |-> 1, std |-> 2]

\* load_model(): `env` is what the file system holds at the call, each path
\* "absent", "ok" or "corrupt" (reading it raises), and the output width of the
\* stored model.  The model is assigned before the parameters are read.
server_load_model(m, params, env) ==
    LET path == IF env.model_path # "absent" THEN env.model_path
                ELSE env.simple_model_path
    IN IF path = "corrupt"
       THEN [model |-> m, normalization_params |-> params, raised |-> TRUE]
       ELSE LET m1 == IF path = "ok" THEN Loaded(env.outputs) ELSE m
            IN CASE env.norm_params_path = "ok" ->
                      [model |-> m1, normalization_params |-> FileParams, raised |-> FALSE]
                 [] env.norm_params_path = "absent" ->
                      [model |-> m1, normalization_params |-> DefaultParams, raised |-> FALSE]
                 [] OTHER ->
                      [model |-> m1, normalization_params |-> params, raised |-> TRUE]

\* process_frame that leaves the trim of the buffer to the next call
server_process_frame_defers_trim(buf, frame) ==
    IF ~frame.decodable
    THEN [sequence_buffer |-> buf, raised |-> TRUE, frame_index |-> 0, keypoints |-> <<>>]
    ELSE LET keypoints == extract_keypoints(frame.results)
             appended == Append(LastN(buf, SEQUENCE_LENGTH), keypoints)
         IN [sequence_buffer |-> appended, raised |-> FALSE,
             frame_index |-> Len(appended), keypoints |-> keypoints]

\* process_frame that pushes a vector of zeros for an image it cannot decode
server_process_frame_pushes_zeros_on_failure(buf, frame) ==
    LET keypoints == IF frame.decodable THEN extract_keypoints(frame.results)
                     ELSE zeros(KEYPOINT_DIMENSIONS)
        trimmed == LastN(Append(buf, keypoints), SEQUENCE_LENGTH)
    IN [sequence_buffer |-> trimmed, raised |-> ~frame.decodable,
        frame_index |-> IF frame.decodable THEN Len(trimmed) ELSE 0,
        keypoints |-> IF frame.decodable THEN keypoints ELSE <<>>]

\* process_frame that takes the length it returns before it trims the buffer
server_process_frame_counts_before_trim(buf, frame) ==
    IF ~frame.decodable
    THEN [sequence_buffer |-> buf, raised |-> TRUE, frame_index |-> 0, keypoints |-> <<>>]
    ELSE LET keypoints == extract_keypoints(frame.results)
             appended == Append(buf, keypoints)
         IN [sequence_buffer |-> LastN(appended, SEQUENCE_LENGTH), raised |-> FALSE,
             frame_index |-> Len(appended), keypoints |-> keypoints]

\* process_frame(frame_data): `frame` is undecodable (cv2.imdecode gives None
\* and cv2.cvtColor raises) or the detection results of the decoded image.
server_process_frame(buf, frame) ==
    IF ~frame.decodable
    THEN [sequence_buffer |-> buf, raised |-> TRUE, frame_index |-> 0, keypoints |-> <<>>]
    ELSE LET keypoints == extract_keypoints(frame.results)
             appended == Append(buf, keypoints)
             trimmed == IF Len(appended) > SEQUENCE_LENGTH
                        THEN LastN(appended, SEQUENCE_LENGTH)
                        ELSE appended
         IN [sequence_buffer |-> trimmed, raised |-> FALSE,
             frame_index |-> Len(trimmed), keypoints |-> keypoints]

\* A number num / den, den > 0: what the float arithmetic of the
\* normalization yields, kept exact (1e-8 is far above the precision of a double).
Rational(num, den) == [num |-> num, den |-> den]

\* The normalization without the 1e-8 added to std
server_normalize_without_epsilon(X, params) ==
    [i \in 1..Len(X) |->
        [k \in 1..Len(X[i]) |->
            IF params.loaded
            THEN Rational((X[i][k] - params.mean) * EPSILON_INV, params.std * EPSILON_INV)
            ELSE Rational(X[i][k], 1)]]

\* make_prediction lines 193-195: X = (X - mean) / (std + 1e-8) if
\* normalization_params is set, X as it is otherwise.
server_normalize(X, params) ==
    [i \in 1..Len(X) |->
        [k \in 1..Len(X[i]) |->
            IF params.loaded
            THEN Rational((X[i][k] - params.mean) * EPSILON_INV, params.std * EPSILON_INV + 1)
            ELSE Rational(X[i][k], 1)]]

\* server_classify without the comparison against PREDICTION_THRESHOLD
server_classify_without_threshold(outcome) ==
    IF outcome.raises
    THEN Result("prediction_error", 0, <<>>, TRUE)
    ELSE LET predicted_idx == argmax(outcome.scores)
             confidence == outcome.scores[predicted_idx + 1]
             predicted_action ==
                 IF predicted_idx < Len(ACTIONS_)
                 THEN ACTIONS_[predicted_idx + 1]
                 ELSE "unknown"
         IN Result(predicted_action, confidence, zip_probs(ACTIONS_, outcome.scores), FALSE)

\* The part of make_prediction after the model is known to be loaded
\* (server.py lines 190-229); `outcome` is what model.predict does.
server_classify(outcome) ==
    IF outcome.raises
    THEN Result("prediction_error", 0, <<>>, TRUE)
    ELSE LET predicted_idx == argmax(outcome.scores)
             confidence == outcome.scores[predicted_idx + 1]
             predicted_action ==
                 IF confidence >= PREDICTION_THRESHOLD /\ predicted_idx < Len(ACTIONS_)
                 THEN ACTIONS_[predicted_idx + 1]
                 ELSE "unknown"
         IN Result(predicted_action, confidence, zip_probs(ACTIONS_, outcome.scores), FALSE)

\* make_prediction() that calls load_model() also while the normalization
\* parameters are missing
server_make_prediction_reloads_params(m, params, buf, env, outcome) ==
    IF Len(buf) < SEQUENCE_LENGTH
    THEN [model |-> m, normalization_params |-> params, invoked |-> FALSE, loads |-> 0, X |-> <<>>,
          result |-> Result("insufficient_data", 0, <<>>, FALSE)]
    ELSE IF m = NoModel \/ ~params.loaded
    THEN LET l == server_load_model(m, params, env)
         IN IF l.raised
            THEN [model |-> l.model, normalization_params |-> l.normalization_params,
                  invoked |-> FALSE, loads |-> 1, X |-> <<>>,
                  result |-> Result("model_error", 0, <<>>, TRUE)]
            ELSE IF l.model = NoModel
            THEN [model |-> l.model, normalization_params |-> l.normalization_params,
                  invoked |-> FALSE, loads |-> 1, X |-> <<>>,
                  result |-> Result("no_model", 0, <<>>, TRUE)]
            ELSE [model |-> l.model, normalization_params |-> l.normalization_params,
                  invoked |-> TRUE, loads |-> 1,
                  X |-> server_normalize(LastN(buf, SEQUENCE_LENGTH), l.normalization_params),
                  result |-> server_classify(outcome)]
    ELSE [model |-> m, normalization_params |-> params, invoked |-> TRUE, loads |-> 0,
          X |-> server_normalize(LastN(buf, SEQUENCE_LENGTH), params),
          result |-> server_classify(outcome)]

\* make_prediction(): `env` is read only if load_model() runs, `outcome` only
\* if the classifier runs.  `invoked` says whether model.predict was called,
\* `X` is the input it was called on.
server_make_prediction(m, params, buf, env, outcome) ==
    IF Len(buf) < SEQUENCE_LENGTH
    THEN [model |-> m, normalization_params |-> params, invoked |-> FALSE, loads |-> 0, X |-> <<>>,
          result |-> Result("insufficient_data", 0, <<>>, FALSE)]
    ELSE IF m = NoModel
    THEN LET l == server_load_model(m, params, env)
         IN IF l.raised
            THEN [model |-> l.model, normalization_params |-> l.normalization_params,
                  invoked |-> FALSE, loads |-> 1, X |-> <<>>,
                  result |-> Result("model_error", 0, <<>>, TRUE)]
            ELSE IF l.model = NoModel
            THEN [model |-> l.model, normalization_params |-> l.normalization_params,
                  invoked |-> FALSE, loads |-> 1, X |-> <<>>,
                  result |-> Result("no_model", 0, <<>>, TRUE)]
            ELSE [model |-> l.model, normalization_params |-> l.normalization_params,
                  invoked |-> TRUE, loads |-> 1,
                  X |-> server_normalize(LastN(buf, SEQUENCE_LENGTH), l.normalization_params),
                  result |-> server_classify(outcome)]
    ELSE [model |-> m, normalization_params |-> params, invoked |-> TRUE, loads |-> 0,
          X |-> server_normalize(LastN(buf, SEQUENCE_LENGTH), params),
          result |-> server_classify(outcome)]

\* reset_sequence()
server_reset_sequence(buf) == <<>>

(***************************************************************************)
(* src/Models/app_integration/model_bridge.py                              *)
(***************************************************************************)
\* load_model(): loads only while `model` is None; a missing file raises
\* FileNotFoundError, a corrupt one makes tf.keras.models.load_model raise.
bridge_load_model(m, env) ==
    IF m = NoModel
    THEN IF env.model_path = "ok"
         THEN [model |-> Loaded(env.outputs), raised |-> FALSE]
         ELSE [model |-> m, raised |-> TRUE]
    ELSE [model |-> m, raised |-> FALSE]

\* process_frame(frame_data): a list is taken as the keypoints as it is;
\* anything else is decoded and run through extract_keypoints.
bridge_process_frame(buf, frame_data) ==
    IF frame_data.kind = "image" /\ ~frame_data.frame.decodable
    THEN [sequence_buffer |-> buf, raised |-> TRUE, keypoints |-> <<>>]
    ELSE LET keypoints == IF frame_data.kind = "list"
                          THEN frame_data.keypoints
                          ELSE extract_keypoints(frame_data.frame.results)
         IN [sequence_buffer |-> LastN(Append(buf, keypoints), SEQUENCE_LENGTH),
             raised |-> FALSE, keypoints |-> keypoints]

\* A window holding a vector that is not KEYPOINT_DIMENSIONS long is not of the
\* classifier's input shape: model.predict raises on it.
Malformed(window) == \E i \in 1..Len(window) : Len(window[i]) # KEYPOINT_DIMENSIONS

\* make_prediction(): nothing is caught here.
bridge_make_prediction(m, buf, env, outcome) ==
    LET l == bridge_load_model(m, env)
    IN IF l.raised
       THEN [model |-> l.model, sequence_buffer |-> buf, raised |-> TRUE,
             invoked |-> FALSE, result |-> NoResult]
       ELSE IF Len(buf) < SEQUENCE_LENGTH
       THEN [model |-> l.model, sequence_buffer |-> buf, raised |-> FALSE,
             invoked |-> FALSE, result |-> Result("insufficient_data", 0, <<>>, FALSE)]
       ELSE LET window == LastN(buf, SEQUENCE_LENGTH)
            IN IF outcome.raises
               THEN [model |-> l.model, sequence_buffer |-> window, raised |-> TRUE,
                     invoked |-> TRUE, result |-> NoResult]
               ELSE LET predicted_idx == argmax(outcome.scores)
                        confidence == outcome.scores[predicted_idx + 1]
                    IN IF confidence >= PREDICTION_THRESHOLD
                          /\ predicted_idx >= Len(ACTIONS_)
                       THEN \* ACTIONS[predicted_idx] raises IndexError
                            [model |-> l.model, sequence_buffer |-> window,
                             raised |-> TRUE, invoked |-> TRUE, result |-> NoResult]
                       ELSE [model |-> l.model, sequence_buffer |-> window,
                             raised |-> FALSE, invoked |-> TRUE,
                             result |-> Result(
                                 IF confidence >= PREDICTION_THRESHOLD
                                 THEN ACTIONS_[predicted_idx + 1] ELSE "unknown",
                                 confidence, zip_probs(ACTIONS_, outcome.scores), FALSE)]

\* reset_sequence()
bridge_reset_sequence(buf) == <<>>

(***************************************************************************)
(* src/SignRecignition/src/inference/predict.py: SignLanguageRecognizer    *)
(***************************************************************************)
\* __init__: the state of a newly constructed recognizer whose model has
\* `outputs` output units.
SignLanguageRecognizer(outputs) ==
    [model |-> Loaded(outputs),
     frame_buffer |-> <<>>,
     last_prediction |-> None,
     prediction_stability |-> 0,
     cooldown_period |-> 0]

\* a deque without maxlen
deque_append_unbounded(buf, x) == Append(buf, x)

\* deque(maxlen=max_frames).append
deque_append(buf, x) ==
    LET appended == Append(buf, x)
    IN IF Len(appended) > max_frames THEN Tail(appended) ELSE appended

\* add_frame(frame): `hands` is what MediaPipe detects in the frame.
add_frame(self, hands) ==
    [self EXCEPT !.frame_buffer = deque_append(@, extract_hand_keypoints(hands))]

\* predict() lines 149-154: count the agreement of `prediction` with the
\* last confident prediction.
check_stability(self, prediction) ==
    IF prediction = self.last_prediction
    THEN [self EXCEPT !.prediction_stability = @ + 1]
    ELSE [self EXCEPT !.prediction_stability = 0, !.last_prediction = prediction]

\* a cooldown decrement without the test for a positive value
decrement_cooldown_below_zero(self) ==
    [self EXCEPT !.cooldown_period = @ - 1]

\* a tick without emission that also drops the count of agreeing predictions
decrement_cooldown_drops_count(self) ==
    [self EXCEPT !.cooldown_period = IF @ > 0 THEN @ - 1 ELSE @,
                 !.prediction_stability = 0]

\* predict() lines 162-164: "If in cooldown, decrement"
decrement_cooldown(self) ==
    [self EXCEPT !.cooldown_period = IF @ > 0 THEN @ - 1 ELSE @]

\* a stability test that is satisfied one match early
is_stable_one_early(self) == self.prediction_stability >= stable_threshold - 1

\* a stability test that takes any count for stable
is_stable_without_threshold(self) == self.prediction_stability >= 0

\* a stability test that also waits for the cooldown to run out
is_stable_after_cooldown(self) ==
    self.prediction_stability >= stable_threshold /\ self.cooldown_period = 0

\* predict() lines 157-160: "Only return a stable prediction"
is_stable(self) == self.prediction_stability >= stable_threshold

Answer(self, raised, invoked, prediction, confidence) ==
    [self |-> self, raised |-> raised, invoked |-> invoked,
     prediction |-> prediction, confidence |-> confidence]

\* predict() that starts a cooldown when the buffer is too short
predict_cools_down_on_short_buffer(self, outcome) ==
    IF Len(self.frame_buffer) < max_frames
    THEN Answer([self EXCEPT !.cooldown_period = cooldown_threshold], FALSE, FALSE, None, 0)
    ELSE IF outcome.raises
    THEN Answer(self, TRUE, TRUE, None, 0)
    ELSE LET predicted_class_idx == argmax(outcome.scores)
             confidence == outcome.scores[predicted_class_idx + 1]
         IN IF confidence >= confidence_threshold
            THEN IF predicted_class_idx >= Len(classes_)
                 THEN Answer(self, TRUE, TRUE, None, 0)
                 ELSE LET prediction == classes_[predicted_class_idx + 1]
                          counted == check_stability(self, prediction)
                      IN IF is_stable(counted)
                         THEN Answer([counted EXCEPT !.cooldown_period = cooldown_threshold],
                                     FALSE, TRUE, prediction, confidence)
                         ELSE Answer(decrement_cooldown(counted), FALSE, TRUE, None, 0)
            ELSE Answer(decrement_cooldown(self), FALSE, TRUE, None, 0)

\* predict() that starts the count anew after each emission
predict_emits_once(self, outcome) ==
    IF Len(self.frame_buffer) < max_frames
    THEN Answer(self, FALSE, FALSE, None, 0)
    ELSE IF outcome.raises
    THEN Answer(self, TRUE, TRUE, None, 0)
    ELSE LET predicted_class_idx == argmax(outcome.scores)
             confidence == outcome.scores[predicted_class_idx + 1]
         IN IF confidence >= confidence_threshold
            THEN IF predicted_class_idx >= Len(classes_)
                 THEN Answer(self, TRUE, TRUE, None, 0)
                 ELSE LET prediction == classes_[predicted_class_idx + 1]
                          counted == check_stability(self, prediction)
                      IN IF is_stable(counted)
                         THEN Answer([counted EXCEPT !.cooldown_period = cooldown_threshold,
                                                     !.prediction_stability = 0],
                                     FALSE, TRUE, prediction, confidence)
                         ELSE Answer(decrement_cooldown(counted), FALSE, TRUE, None, 0)
            ELSE Answer(decrement_cooldown(self), FALSE, TRUE, None, 0)

\* predict(): `outcome` is what scaler.transform and model.predict do on
\* the window.  label_encoder.inverse_transform raises ValueError on an index
\* that is no class.
predict(self, outcome) ==
    IF Len(self.frame_buffer) < max_frames
    THEN Answer(self, FALSE, FALSE, None, 0)
    ELSE IF outcome.raises
    THEN Answer(self, TRUE, TRUE, None, 0)
    ELSE LET predicted_class_idx == argmax(outcome.scores)
             confidence == outcome.scores[predicted_class_idx + 1]
         IN IF confidence >= confidence_threshold
            THEN IF predicted_class_idx >= Len(classes_)
                 THEN Answer(self, TRUE, TRUE, None, 0)
                 ELSE LET prediction == classes_[predicted_class_idx + 1]
                          counted == check_stability(self, prediction)
                      IN IF is_stable(counted)
                         THEN Answer([counted EXCEPT !.cooldown_period = cooldown_threshold],
                                     FALSE, TRUE, prediction, confidence)
                         ELSE Answer(decrement_cooldown(counted), FALSE, TRUE, None, 0)
            ELSE Answer(decrement_cooldown(self), FALSE, TRUE, None, 0)

\* reset() that leaves prediction_stability as it is
reset_keeps_stability(self) ==
    [self EXCEPT !.frame_buffer = <<>>,
                 !.last_prediction = None,
                 !.cooldown_period = 0]

\* reset() that drops the oldest frame (popleft) in place of clearing
reset_pops_oldest(self) ==
    [self EXCEPT !.frame_buffer = IF @ = <<>> THEN @ ELSE Tail(@),
                 !.last_prediction = None,
                 !.prediction_stability = 0,
                 !.cooldown_period = 0]

\* reset()
reset(self) ==
    [self EXCEPT !.frame_buffer = <<>>,
                 !.last_prediction = None,
                 !.prediction_stability = 0,
                 !.cooldown_period = 0]

(***************************************************************************)
(* Inputs.                                                                 *)
(***************************************************************************)
\* What MediaPipe Holistic reports for an image: per landmark group 0 (not
\* detected) or the coordinate value of its landmarks.
Detection(pose, face, lh, rh) ==
    [pose_landmarks |-> pose, face_landmarks |-> face,
     left_hand_landmarks |-> lh, right_hand_landmarks |-> rh]

Undecodable == [decodable |-> FALSE, results |-> Detection(0, 0, 0, 0)]

Decoded(results) == [decodable |-> TRUE, results |-> results]

\* Uploaded images: nothing detected, everything detected, or no image at all.
Frames == {Undecodable, Decoded(Detection(0, 0, 0, 0)), Decoded(Detection(1, 1, 1, 1))}

\* Pre-extracted keypoint lists posted to /predict/keypoints: one of the
\* right length, one too short.
KeypointLists == {full(KEYPOINT_DIMENSIONS, 2), full(KEYPOINT_DIMENSIONS - 1, 2)}

Hand(label, xy) == [label |-> label, xy |-> xy]

\* What MediaPipe Hands reports for a camera frame.
HandInputs == {<<>>, <<Hand("Left", 1), Hand("Right", 2)>>}

FileStates == {"absent", "ok", "corrupt"}

\* Output widths of the stored classifier: the label count, or one more.
Widths == {Len(ACTIONS_), Len(ACTIONS_) + 1}

Env == [model_path : FileStates, simple_model_path : FileStates,
        norm_params_path : FileStates, outputs : Widths]

NoEnv == [model_path |-> "absent", simple_model_path |-> "absent",
          norm_params_path |-> "absent", outputs |-> Len(ACTIONS_)]

TopLevels == {30, 70}

\* Classifier outputs of width w: one class on top at 30 or 70 percent and
\* the others at 5, the first class at 90, or all classes tied at 30.
ScoreVectors(w) ==
    {[i \in 1..w |-> IF i = k THEN c ELSE 5] : k \in 1..w, c \in TopLevels}
        \cup {[i \in 1..w |-> IF i = 1 THEN 90 ELSE 5], full(w, 30)}

Outcomes(w) == {Raises} \cup {Returns(scores) : scores \in ScoreVectors(w)}

(***************************************************************************)
(* The record kept of the last call.                                       *)
(***************************************************************************)
\* `before` is the buffer length the call found, `dim` the length of the
\* keypoint vector an ingest was about, `frame_index` what the ingest answered.
Response(op, before, raised, invoked, result, scores, frame_index, dim) ==
    [op |-> op, before |-> before, raised |-> raised, invoked |-> invoked,
     result |-> result, scores |-> scores, frame_index |-> frame_index, dim |-> dim]

NoResponse == Response("none", 0, FALSE, FALSE, NoResult, <<>>, 0, 0)

NoRecognizer ==
    [model |-> NoModel, frame_buffer |-> <<>>, last_prediction |-> None,
     prediction_stability |-> 0, cooldown_period |-> 0]

\* No tick yet: `label` is the one label of the confident ticks so far (None
\* before the first, "mixed" once two differ), `high` counts them, `low` says
\* whether a tick below the confidence threshold came in between.
NoStreak == [label |-> None, high |-> 0, low |-> FALSE]

Labels == {ACTIONS_[i] : i \in 1..Len(ACTIONS_)} \cup {classes_[i] : i \in 1..Len(classes_)}

High(scores, threshold) == scores[argmax(scores) + 1] >= threshold

\* `ever` after a classifier call that returned `scores` and a call that
\* answered `action`.
Ever(invoked, outcome, threshold, action) ==
    [ever EXCEPT
        !.high = @ \/ (invoked /\ ~outcome.raises /\ High(outcome.scores, threshold)),
        !.emitted = @ \/ action \in Labels]

\* The clients of the application.  The handlers take no notice of who sends
\* a request: each works on the globals of the one process.
Clients == {"c1", "c2"}

NoClient == "none"

\* No extractor called yet
NoExtraction ==
    [extractor |-> "none", results |-> Detection(0, 0, 0, 0), hands |-> <<>>,
     keypoints |-> <<>>]

\* The globals of the three programs before the first request
Globals ==
    /\ phase = IF program \in {"server", "recognizer"} THEN "startup" ELSE "serving"
    /\ model = NoModel
    /\ normalization_params = NoParams
    /\ sequence_buffer = <<>>
    /\ recognizer = NoRecognizer
    /\ response = NoResponse
    /\ ingested = <<>>
    /\ streak = NoStreak
    /\ fresh = NoRecognizer
    /\ fresh_response = NoResponse
    /\ ever = [high |-> FALSE, emitted |-> FALSE, reset |-> FALSE]
    /\ client = NoClient
    /\ owners = <<>>
    /\ extracted = NoExtraction
    /\ inflight = <<>>

\* The state of the process before its first request
Start == program \in {"server", "bridge", "recognizer"} /\ Globals

\* One client
Init == Start /\ clients = {"c1"}

\* The two extractors called on their own, on any detection
InitExtract == program = "extractor" /\ Globals /\ clients = {"c1"}

\* Two clients whose requests interleave
InitClients == Start /\ clients = Clients

\* The bounds on the frames and on the confident ticks between two resets
IngestBound == IF clients = {"c1"} THEN MaxIngest ELSE MaxIngestClients

TickBound == IF clients = {"c1"} THEN MaxTicks ELSE MaxTicksClients

\* A request of some client that pushes a vector if `stored`
Pushed(stored) ==
    \E c \in clients :
        /\ client' = c
        /\ owners' = IF stored THEN Append(owners, c) ELSE owners
        /\ UNCHANGED clients

\* A request of some client that leaves the buffer alone
Asked == \E c \in clients : client' = c /\ UNCHANGED <<clients, owners>>

\* A request of some client that clears the buffer
Cleared == \E c \in clients : client' = c /\ owners' = <<>> /\ UNCHANGED clients

recognizer_vars == <<recognizer, streak, fresh, fresh_response>>

(***************************************************************************)
(* src/Backend/server.py: the handlers.                                    *)
(***************************************************************************)
\* startup_event(): load_model() under try/except
Server_startup_event ==
    /\ program = "server" /\ phase = "startup"
    /\ \E env \in Env :
         LET l == server_load_model(model, normalization_params, env)
         IN /\ model' = l.model
            /\ normalization_params' = l.normalization_params
            /\ response' = Response("startup", 0, FALSE, FALSE, NoResult, <<>>, 0, 0)
    /\ phase' = "serving"
    /\ UNCHANGED <<program, sequence_buffer, ingested, ever, recognizer_vars>>
    /\ UNCHANGED <<clients, client, owners>>
    /\ UNCHANGED <<extracted, inflight>>

\* POST /predict/frame
Server_predict_frame ==
    /\ program = "server" /\ phase = "serving"
    /\ Len(ingested) < IngestBound
    /\ \E frame \in Frames :
         LET r == server_process_frame(sequence_buffer, frame)
         IN /\ sequence_buffer' = r.sequence_buffer
            /\ ingested' = IF r.raised THEN ingested ELSE Append(ingested, r.keypoints)
            /\ response' = Response("ingest", Len(sequence_buffer), r.raised, FALSE, NoResult, <<>>,
                                    r.frame_index, Len(r.keypoints))
            /\ Pushed(~r.raised)
    /\ UNCHANGED <<program, phase, model, normalization_params, ever, recognizer_vars>>
    /\ UNCHANGED <<extracted, inflight>>

\* GET /predict with a make_prediction that uses up the window it classified
Server_predict_consumes_window ==
    /\ program = "server" /\ phase = "serving"
    /\ \E env \in (IF model = NoModel /\ Len(sequence_buffer) >= SEQUENCE_LENGTH
                   THEN Env ELSE {NoEnv}) :
         LET probe == server_make_prediction(model, normalization_params,
                                             sequence_buffer, env, Raises)
         IN \E outcome \in (IF probe.invoked THEN Outcomes(probe.model.outputs)
                            ELSE {Raises}) :
              LET r == server_make_prediction(model, normalization_params,
                                              sequence_buffer, env, outcome)
              IN /\ model' = r.model
                 /\ normalization_params' = r.normalization_params
                 /\ response' = Response("predict", Len(sequence_buffer), FALSE, r.invoked, r.result,
                                         IF r.invoked THEN outcome.scores ELSE <<>>, 0, 0)
                 /\ ever' = Ever(r.invoked, outcome, PREDICTION_THRESHOLD, r.result.action)
                 /\ sequence_buffer' = IF r.invoked THEN <<>> ELSE sequence_buffer
    /\ Asked
    /\ UNCHANGED <<program, phase, ingested, recognizer_vars>>
    /\ UNCHANGED <<extracted, inflight>>

\* GET /predict
Server_predict ==
    /\ program = "server" /\ phase = "serving"
    /\ \E env \in (IF model = NoModel /\ Len(sequence_buffer) >= SEQUENCE_LENGTH
                   THEN Env ELSE {NoEnv}) :
         LET probe == server_make_prediction(model, normalization_params,
                                             sequence_buffer, env, Raises)
         IN \E outcome \in (IF probe.invoked THEN Outcomes(probe.model.outputs)
                            ELSE {Raises}) :
              LET r == server_make_prediction(model, normalization_params,
                                              sequence_buffer, env, outcome)
              IN /\ model' = r.model
                 /\ normalization_params' = r.normalization_params
                 /\ response' = Response("predict", Len(sequence_buffer), FALSE, r.invoked, r.result,
                                         IF r.invoked THEN outcome.scores ELSE <<>>, 0, 0)
                 /\ ever' = Ever(r.invoked, outcome, PREDICTION_THRESHOLD, r.result.action)
    /\ Asked
    /\ UNCHANGED <<program, phase, sequence_buffer, ingested, recognizer_vars>>
    /\ UNCHANGED <<extracted, inflight>>

\* POST /reset
Server_reset ==
    /\ program = "server" /\ phase = "serving"
    /\ sequence_buffer' = server_reset_sequence(sequence_buffer)
    /\ ingested' = <<>>
    /\ response' = Response("reset", Len(sequence_buffer), FALSE, FALSE, NoResult, <<>>, 0, 0)
    /\ ever' = [ever EXCEPT !.reset = TRUE]
    /\ Cleared
    /\ UNCHANGED <<program, phase, model, normalization_params, recognizer_vars>>
    /\ UNCHANGED <<extracted, inflight>>

(***************************************************************************)
(* src/Models/app_integration/model_bridge.py: the handlers.               *)
(***************************************************************************)
Bridge_ingest(frame_data) ==
    LET r == bridge_process_frame(sequence_buffer, frame_data)
    IN /\ sequence_buffer' = r.sequence_buffer
       /\ ingested' = IF r.raised THEN ingested ELSE Append(ingested, r.keypoints)
       /\ response' = Response("ingest", Len(sequence_buffer), r.raised, FALSE, NoResult, <<>>,
                               Len(r.sequence_buffer),
                               IF frame_data.kind = "list" THEN Len(frame_data.keypoints)
                               ELSE Len(r.keypoints))
       /\ Pushed(~r.raised)
       /\ UNCHANGED <<program, phase, model, normalization_params, ever, recognizer_vars>>
       /\ UNCHANGED <<extracted, inflight>>

\* POST /predict/frame
Bridge_predict_from_frame ==
    /\ program = "bridge" /\ phase = "serving"
    /\ Len(ingested) < IngestBound
    /\ \E frame \in Frames :
         Bridge_ingest([kind |-> "image", frame |-> frame, keypoints |-> <<>>])

\* POST /predict/keypoints
Bridge_predict_from_keypoints ==
    /\ program = "bridge" /\ phase = "serving"
    /\ Len(ingested) < IngestBound
    /\ \E keypoints \in KeypointLists :
         Bridge_ingest([kind |-> "list", frame |-> Undecodable, keypoints |-> keypoints])

\* GET /predict
Bridge_get_prediction ==
    /\ program = "bridge" /\ phase = "serving"
    /\ \E env \in (IF model = NoModel THEN Env ELSE {NoEnv}) :
         LET probe == bridge_make_prediction(model, sequence_buffer, env, Raises)
         IN \E outcome \in (IF probe.invoked /\ ~Malformed(probe.sequence_buffer)
                            THEN Outcomes(probe.model.outputs) ELSE {Raises}) :
              LET r == bridge_make_prediction(model, sequence_buffer, env, outcome)
              IN /\ model' = r.model
                 /\ sequence_buffer' = r.sequence_buffer
                 /\ response' = Response("predict", Len(sequence_buffer), r.raised, r.invoked, r.result,
                                         IF r.invoked THEN outcome.scores ELSE <<>>, 0, 0)
                 /\ ever' = Ever(r.invoked, outcome, PREDICTION_THRESHOLD, r.result.action)
    /\ Asked
    /\ UNCHANGED <<program, phase, normalization_params, ingested, recognizer_vars>>
    /\ UNCHANGED <<extracted, inflight>>

\* POST /reset
Bridge_reset ==
    /\ program = "bridge" /\ phase = "serving"
    /\ sequence_buffer' = bridge_reset_sequence(sequence_buffer)
    /\ ingested' = <<>>
    /\ response' = Response("reset", Len(sequence_buffer), FALSE, FALSE, NoResult, <<>>, 0, 0)
    /\ ever' = [ever EXCEPT !.reset = TRUE]
    /\ Cleared
    /\ UNCHANGED <<program, phase, model, normalization_params, recognizer_vars>>
    /\ UNCHANGED <<extracted, inflight>>

(***************************************************************************)
(* src/SignRecignition: the recognizer behind api/app.py.                  *)
(***************************************************************************)
\* startup_event(): a missing file, a failing load or a failing warm-up call
\* raises and the application does not start.
App_startup_event ==
    /\ program = "recognizer" /\ phase = "startup"
    /\ \E files_ok \in BOOLEAN, outputs \in Widths :
         IF files_ok
         THEN /\ recognizer' = SignLanguageRecognizer(outputs)
              /\ fresh' = SignLanguageRecognizer(outputs)
              /\ phase' = "serving"
              /\ response' = Response("startup", 0, FALSE, FALSE, NoResult, <<>>, 0, 0)
         ELSE /\ UNCHANGED <<recognizer, fresh>>
              /\ phase' = "failed"
              /\ response' = Response("startup", 0, TRUE, FALSE, NoResult, <<>>, 0, 0)
    /\ fresh_response' = response'
    /\ UNCHANGED <<program, model, normalization_params, sequence_buffer, ingested,
                   streak, ever, clients, client, owners>>
    /\ UNCHANGED <<extracted, inflight>>

\* The frames posted to /recognize/continuous: one that cv2.imdecode cannot
\* decode, and the decodable ones with what MediaPipe Hands detects in them
Images ==
    {[decodable |-> FALSE, hands |-> <<>>]}
        \cup {[decodable |-> TRUE, hands |-> hands] : hands \in HandInputs}

\* api/app.py recognize_continuous up to recognizer.add_frame(img): an image
\* that cannot be decoded raises before add_frame is called.
Recognizer_add_frame ==
    /\ program = "recognizer" /\ phase = "serving"
    /\ Len(ingested) < IngestBound
    /\ \E img \in Images :
         IF img.decodable
         THEN /\ recognizer' = add_frame(recognizer, img.hands)
              /\ fresh' = add_frame(fresh, img.hands)
              /\ ingested' = Append(ingested, extract_hand_keypoints(img.hands))
              /\ response' = Response("ingest", Len(recognizer.frame_buffer), FALSE, FALSE,
                                      NoResult, <<>>,
                                      Len(recognizer'.frame_buffer), HAND_KEYPOINTS)
              /\ Pushed(TRUE)
         ELSE /\ UNCHANGED <<recognizer, fresh, ingested>>
              /\ response' = Response("ingest", Len(recognizer.frame_buffer), TRUE, FALSE,
                                      NoResult, <<>>, 0, 0)
              /\ Pushed(FALSE)
    /\ fresh_response' = response'
    /\ UNCHANGED <<program, phase, model, normalization_params, sequence_buffer,
                   streak, ever>>
    /\ UNCHANGED <<extracted, inflight>>

\* `streak` after a tick on which the classifier returned `scores`
Tick(scores) ==
    IF High(scores, confidence_threshold)
    THEN IF argmax(scores) >= Len(classes_)
         THEN streak
         ELSE LET label == classes_[argmax(scores) + 1]
              IN [streak EXCEPT !.high = @ + 1,
                                !.label = IF @ \in {None, label} THEN label ELSE "mixed"]
    ELSE [streak EXCEPT !.low = TRUE]

RecognizerResponse(r, outcome) ==
    Response("predict", Len(r.self.frame_buffer), r.raised, r.invoked, Result(r.prediction, r.confidence, <<>>, FALSE),
             IF r.invoked THEN outcome.scores ELSE <<>>, 0, 0)

\* recognizer.predict()
Recognizer_predict ==
    /\ program = "recognizer" /\ phase = "serving"
    /\ streak.high < TickBound
    /\ \E outcome \in (IF Len(recognizer.frame_buffer) >= max_frames
                       THEN Outcomes(recognizer.model.outputs) ELSE {Raises}) :
         LET r == predict(recognizer, outcome)
             f == predict(fresh, outcome)
         IN /\ recognizer' = r.self
            /\ fresh' = f.self
            /\ response' = RecognizerResponse(r, outcome)
            /\ fresh_response' = RecognizerResponse(f, outcome)
            /\ streak' = IF r.invoked /\ ~outcome.raises THEN Tick(outcome.scores) ELSE streak
            /\ ever' = Ever(r.invoked, outcome, confidence_threshold, r.prediction)
    /\ Asked
    /\ UNCHANGED <<program, phase, model, normalization_params, sequence_buffer, ingested>>
    /\ UNCHANGED <<extracted, inflight>>

\* recognizer.reset(); the history recognizer is constructed anew instead.
Recognizer_reset ==
    /\ program = "recognizer" /\ phase = "serving"
    /\ recognizer' = reset(recognizer)
    /\ fresh' = SignLanguageRecognizer(recognizer.model.outputs)
    /\ ingested' = <<>>
    /\ streak' = NoStreak
    /\ response' = Response("reset", Len(recognizer.frame_buffer), FALSE, FALSE, NoResult, <<>>, 0, 0)
    /\ fresh_response' = response'
    /\ ever' = [ever EXCEPT !.reset = TRUE]
    /\ Cleared
    /\ UNCHANGED <<program, phase, model, normalization_params, sequence_buffer>>
    /\ UNCHANGED <<extracted, inflight>>

Next ==
    \/ Server_startup_event
    \/ Server_predict_frame
    \/ Server_predict
    \/ Server_reset
    \/ Bridge_predict_from_frame
    \/ Bridge_predict_from_keypoints
    \/ Bridge_get_prediction
    \/ Bridge_reset
    \/ App_startup_event
    \/ Recognizer_add_frame
    \/ Recognizer_predict
    \/ Recognizer_reset

Spec == Init /\ [][Next]_vars

SpecClients == InitClients /\ [][Next]_vars

(***************************************************************************)
(* src/Backend/server.py with concurrent requests.  The handlers are       *)
(* coroutines of one event loop: a handler runs until it awaits, and the   *)
(* only await is `contents = await file.read()` in predict_frame.          *)
(***************************************************************************)
\* The server alone, no upload being read
InitConcurrent == program = "server" /\ Globals /\ clients = {"c1"}

\* The i-th element of seq taken out
Remove(seq, i) == [k \in 1..(Len(seq) - 1) |-> IF k < i THEN seq[k] ELSE seq[k + 1]]

\* POST /predict/frame up to `await file.read()`: the handler is suspended
\* while the upload is read.
Server_predict_frame_await_read ==
    /\ program = "server" /\ phase = "serving"
    /\ Len(inflight) < MaxInflight
    /\ Len(ingested) + Len(inflight) < IngestBound
    /\ \E frame \in Frames : inflight' = Append(inflight, frame)
    /\ UNCHANGED <<program, phase, model, normalization_params, sequence_buffer, response,
                   ingested, ever, clients, client, owners, extracted, recognizer_vars>>

\* POST /predict/frame from the resumption to the response: any of the
\* suspended handlers is resumed, and runs process_frame without awaiting.
Server_predict_frame_resumed ==
    /\ program = "server" /\ phase = "serving"
    /\ \E i \in 1..Len(inflight) :
         LET r == server_process_frame(sequence_buffer, inflight[i])
         IN /\ inflight' = Remove(inflight, i)
            /\ sequence_buffer' = r.sequence_buffer
            /\ ingested' = IF r.raised THEN ingested ELSE Append(ingested, r.keypoints)
            /\ response' = Response("ingest", Len(sequence_buffer), r.raised, FALSE, NoResult, <<>>,
                                    r.frame_index, Len(r.keypoints))
            /\ Pushed(~r.raised)
    /\ UNCHANGED <<program, phase, model, normalization_params, ever, extracted, recognizer_vars>>

NextConcurrent ==
    \/ Server_startup_event
    \/ Server_predict_frame_await_read
    \/ Server_predict_frame_resumed
    \/ Server_predict
    \/ Server_reset

SpecConcurrent == InitConcurrent /\ [][NextConcurrent]_vars

(***************************************************************************)
(* The extractors on their own.                                            *)
(***************************************************************************)
\* A landmark group is not detected (0) or detected with coordinates 1 or 2
Coordinates == {0, 1, 2}

Detections ==
    {Detection(pose, face, lh, rh) :
        pose \in Coordinates, face \in Coordinates, lh \in Coordinates, rh \in Coordinates}

Hands == {Hand(label, xy) : label \in {"Left", "Right"}, xy \in {1, 2}}

\* multi_hand_landmarks: no hand, one, two, or (were max_num_hands raised) three
HandLists ==
    {<<>>} \cup {<<a>> : a \in Hands} \cup {<<a, b>> : a \in Hands, b \in Hands}
        \cup {<<a, b, c>> : a \in Hands, b \in Hands, c \in Hands}

extractor_vars ==
    <<program, phase, model, normalization_params, sequence_buffer, recognizer, response,
      ingested, streak, fresh, fresh_response, ever, clients, client, owners, inflight>>

Extract_keypoints ==
    /\ program = "extractor"
    /\ \E results \in Detections :
         extracted' = [extractor |-> "extract_keypoints", results |-> results,
                       hands |-> <<>>, keypoints |-> extract_keypoints(results)]
    /\ UNCHANGED extractor_vars

Extract_hand_keypoints ==
    /\ program = "extractor"
    /\ \E hands \in HandLists :
         extracted' = [extractor |-> "extract_hand_keypoints",
                       results |-> Detection(0, 0, 0, 0),
                       hands |-> hands, keypoints |-> extract_hand_keypoints(hands)]
    /\ UNCHANGED extractor_vars

NextExtract == Extract_keypoints \/ Extract_hand_keypoints

SpecExtract == InitExtract /\ [][NextExtract]_vars

(***************************************************************************)
(* The properties.                                                         *)
(***************************************************************************)
Simple == program \in {"server", "bridge"}

Stabilized == program = "recognizer" /\ phase = "serving"

\* The running program's sequence buffer and its window length L
Buffer == IF program = "recognizer" THEN recognizer.frame_buffer ELSE sequence_buffer

WindowLength == IF program = "recognizer" THEN max_frames ELSE SEQUENCE_LENGTH

\* The last n elements of seq, in order
Suffix(seq, n) == [i \in 1..n |-> seq[Len(seq) - n + i]]

\* The last call was a predict on which the classifier returned scores
Ticked == response.op = "predict" /\ response.invoked /\ response.scores # <<>>

Threshold == IF program = "recognizer" THEN confidence_threshold ELSE PREDICTION_THRESHOLD

TopIndex == argmax(response.scores)

TopConfidence == response.scores[TopIndex + 1]

HighTick == Ticked /\ TopConfidence >= Threshold

LowTick == Ticked /\ TopConfidence < Threshold

\* The last call was a predict of the stabilized recognizer that emitted a label
Emitted == response.op = "predict" /\ ~response.raised /\ response.result.action \in Labels

\* C1: in all three programs the buffer never holds more than L vectors, and
\* once L vectors were ingested since the last reset it holds exactly the
\* last L ingested vectors in arrival order.
C1_BufferIsLastLIngested ==
    /\ Len(Buffer) <= WindowLength
    /\ Len(ingested) >= WindowLength => Buffer = Suffix(ingested, WindowLength)
    /\ Len(ingested) < WindowLength => Buffer = ingested

\* C1 witness: more than L vectors were ingested, the oldest differing from
\* the newest, so that an eviction took place.
C1_Evicted ==
    /\ program = "server"
    /\ response.op = "ingest" /\ ~response.raised
    /\ Len(ingested) > SEQUENCE_LENGTH
    /\ ingested[1] # ingested[Len(ingested)]

\* C2 (as claimed): an ingest of a pre-extracted keypoint vector whose length
\* is not D is rejected with an error and the vector is not stored: every
\* vector of the buffer is D long.
C2_WrongDimensionRejected ==
    (program = "bridge" /\ response.op = "ingest" /\ response.dim # KEYPOINT_DIMENSIONS)
        => /\ response.raised
           /\ \A i \in 1..Len(sequence_buffer) :
                  Len(sequence_buffer[i]) = KEYPOINT_DIMENSIONS

\* C3 (as claimed): a predict on a buffer of fewer than L frames answers
\* insufficient_data with confidence 0 and no scores whatever the state of
\* the classifier; the stabilized recognizer answers (None, 0).
C3_InsufficientData ==
    (response.op = "predict" /\ response.before < WindowLength)
        => /\ ~response.raised
           /\ response.result =
                 IF program = "recognizer" THEN Result(None, 0, <<>>, FALSE)
                 ELSE Result("insufficient_data", 0, <<>>, FALSE)

\* C4 (as claimed): from a new or reset stabilizer, confident ticks that all
\* yield one label emit nothing before tick stable_threshold and emit the
\* label with its confidence on tick stable_threshold.
C4_EmitsOnThresholdTick ==
    (Stabilized /\ HighTick /\ ~response.raised /\ streak.label \in Labels /\ ~streak.low)
        => /\ streak.high < stable_threshold => response.result.action = None
           /\ streak.high = stable_threshold =>
                 /\ response.result.action = streak.label
                 /\ response.result.confidence = TopConfidence

\* C5: a tick below the confidence threshold leaves last_prediction and
\* prediction_stability as they were and emits nothing; so while all confident
\* ticks since the reset yield one label, the count depends only on their
\* number, interrupted or not, and so does the emission.
C5_LowTickLeavesStreak ==
    /\ [][(Stabilized /\ LowTick')
            => /\ recognizer'.last_prediction = recognizer.last_prediction
               /\ recognizer'.prediction_stability = recognizer.prediction_stability
               /\ response'.result = Result(None, 0, <<>>, FALSE)]_vars
    /\ []((Stabilized /\ streak.label \in Labels)
            => /\ recognizer.last_prediction = streak.label
               /\ recognizer.prediction_stability = streak.high - 1
               /\ (HighTick /\ ~response.raised)
                     => (Emitted <=> streak.high - 1 >= stable_threshold))

\* C5 witness: a streak for one label, interrupted by a tick below the
\* threshold, emits on its first emitting tick.
C5_InterruptedStreakEmits ==
    /\ Stabilized /\ Emitted
    /\ streak.low /\ streak.label \in Labels
    /\ recognizer.prediction_stability = stable_threshold

\* C6: after reset() the recognizer is in the state of a newly constructed
\* one, and from then on it stays equal, state and answers, to a newly
\* constructed recognizer fed the same frames and classifier outputs.
C6_ResetEqualsNewSession ==
    Stabilized
        => /\ recognizer = fresh
           /\ response = fresh_response
           /\ response.op = "reset" => recognizer = SignLanguageRecognizer(recognizer.model.outputs)

\* C6 witness: an emission on a streak that began after a reset.
C6_EmittedAfterReset ==
    /\ Stabilized /\ Emitted /\ ever.reset
    /\ recognizer.prediction_stability = stable_threshold

\* C7: a reset that follows a reset leaves the buffer and the stabilizer as
\* the first one left them, and no reset raises.
C7_ResetIsIdempotent ==
    /\ [][(response.op = "reset" /\ response'.op = "reset")
            => /\ sequence_buffer' = sequence_buffer
               /\ recognizer' = recognizer]_vars
    /\ [](response.op = "reset" => ~response.raised /\ Buffer = <<>>)

\* C7 witness: a reset of an already empty session, after an earlier emission.
C7_ResetOfEmptySession ==
    /\ response.op = "reset" /\ response.before = 0
    /\ ever.emitted /\ ~response.raised

\* C8 (as claimed): in the simple programs a predict on which the classifier
\* returned scores never raises and answers "unknown" if the top confidence
\* is below PREDICTION_THRESHOLD or the top index is no index of the label
\* list, and the label at the top index with its confidence otherwise.
C8_SimpleThresholding ==
    (Simple /\ Ticked)
        => /\ ~response.raised
           /\ response.result.confidence = TopConfidence
           /\ response.result.action =
                 IF TopConfidence < PREDICTION_THRESHOLD \/ TopIndex >= Len(ACTIONS_)
                 THEN "unknown" ELSE ACTIONS_[TopIndex + 1]

\* C9: while no tick had a top confidence at or above the threshold, no
\* predict has answered a label: the simple programs answer "unknown" on
\* every tick and the stabilized recognizer emits nothing.
C9_LowConfidenceNeverEmits ==
    ~ever.high
        => /\ ~ever.emitted
           /\ (Simple /\ Ticked) => (~response.raised /\ response.result.action = "unknown")
           /\ (Stabilized /\ Ticked) => response.result = Result(None, 0, <<>>, FALSE)

\* C9 witness: a tick of the server below the threshold, none above it so far.
C9_LowTickSeen ==
    /\ program = "server" /\ LowTick /\ ~ever.high
    /\ response.before = SEQUENCE_LENGTH

\* C10 (as claimed): a predict on a full buffer that leaves no classifier
\* loaded does not raise and answers no_model or model_error with confidence
\* 0 and an error message.
C10_NoModelIsStructured ==
    (Simple /\ response.op = "predict" /\ response.before >= SEQUENCE_LENGTH /\ model = NoModel)
        => /\ ~response.raised
           /\ response.result.action \in {"no_model", "model_error"}
           /\ response.result.confidence = 0
           /\ response.result.error

\* The last call was a predict on which the classifier call itself raised
Threw == response.op = "predict" /\ response.invoked /\ response.scores = <<>>

\* C11 (as claimed): a predict on which the classifier call raises does not
\* raise to its caller, answers prediction_error with confidence 0 and an
\* error message, and leaves the buffer and the stabilizer as they were.
C11_InferenceFailureIsCaught ==
    /\ [](Threw
            => /\ ~response.raised
               /\ response.result.action = "prediction_error"
               /\ response.result.confidence = 0
               /\ response.result.error)
    /\ [][Threw'
            => /\ sequence_buffer' = sequence_buffer
               /\ recognizer' = recognizer]_vars

\* The clients whose vectors the buffer holds, oldest first
BufferOwners == Suffix(owners, Len(Buffer))

\* C12 (as claimed): the window a predict of one client is answered from
\* holds no vector ingested by another client, and a reset of one client
\* clears no vector ingested by another.
C12_ClientsAreIsolated ==
    /\ []((response.op = "predict" /\ response.invoked)
            => \A i \in 1..Len(BufferOwners) : BufferOwners[i] = client)
    /\ [][response'.op = "reset"
            => \A i \in 1..Len(BufferOwners) : BufferOwners[i] = client']_vars

\* The window of the server's buffer and what the classifier is handed for it
Window == LastN(sequence_buffer, SEQUENCE_LENGTH)

ClassifierInput ==
    server_make_prediction(model, normalization_params, sequence_buffer, NoEnv, Raises).X

\* The server's classifier ran on a window normalized with mean 0 and std 1
DefaultNormalized ==
    /\ program = "server" /\ response.op = "predict" /\ response.invoked
    /\ normalization_params = DefaultParams

Abs(n) == IF n < 0 THEN -n ELSE n

\* C13 (as claimed): normalizing with mean 0 and std 1 returns the window
\* unchanged, whatever its values.
C13_DefaultNormalizationIsIdentity ==
    DefaultNormalized
        => \A i \in 1..Len(Window) : \A k \in 1..Len(Window[i]) :
              ClassifierInput[i][k].num = Window[i][k] * ClassifierInput[i][k].den

\* C13 (amended): normalizing with mean 0 and std 1 keeps the window's shape,
\* returns a zero value unchanged and moves every other value x towards zero
\* by less than |x| * 1e-8, keeping its sign.
C13_DefaultNormalizationShrinks ==
    DefaultNormalized
        => /\ Len(ClassifierInput) = Len(Window)
           /\ \A i \in 1..Len(Window) :
                /\ Len(ClassifierInput[i]) = Len(Window[i])
                /\ \A k \in 1..Len(Window[i]) :
                     LET x == Window[i][k]
                         y == ClassifierInput[i][k]
                         moved == Abs(x) * y.den - Abs(y.num)
                     IN /\ y.den > 0
                        /\ x = 0 => y.num = 0
                        /\ x # 0 => /\ y.num * x > 0
                                    /\ moved > 0
                                    /\ moved * EPSILON_INV < Abs(x) * y.den

\* C13 witness: the classifier ran on a default-normalized window that holds
\* a zero vector and a non-zero vector.
C13_NormalizedMixedWindow ==
    /\ DefaultNormalized
    /\ \E i \in 1..Len(Window) : Window[i][1] = 0
    /\ \E i \in 1..Len(Window) : Window[i][1] # 0

\* C14: in the simple programs every successful ingest answers the length of
\* the buffer after the push, which is min(k, L) for the k-th successful
\* ingest since the last reset: one more than before until L, then L.
C14_IngestReturnsFrameCount ==
    (Simple /\ response.op = "ingest" /\ ~response.raised)
        => /\ response.frame_index = Len(sequence_buffer)
           /\ response.frame_index = Min(Len(ingested), SEQUENCE_LENGTH)
           /\ response.frame_index = Min(response.before + 1, SEQUENCE_LENGTH)

\* C14 witness: a successful ingest into a full buffer of the server
C14_IngestIntoFullBuffer ==
    /\ program = "server" /\ response.op = "ingest" /\ ~response.raised
    /\ response.before = SEQUENCE_LENGTH
    /\ Len(ingested) > SEQUENCE_LENGTH

\* C15 (as claimed): a classifier whose output width is not the number of
\* labels is rejected when it is loaded, so no loaded model has another width
\* and no predict runs the classifier on one.
C15_WidthMismatchRejectedAtLoad ==
    /\ model.loaded => model.outputs = Len(ACTIONS_)
    /\ recognizer.model.loaded => recognizer.model.outputs = Len(classes_)
    /\ Ticked => Len(response.scores) = IF program = "recognizer" THEN Len(classes_)
                                         ELSE Len(ACTIONS_)

\* C16 (as claimed): the service starts whatever the load at startup does,
\* and a full-buffer predict that finds no model loaded retries the load: it
\* answers no_model or model_error only if the model is still not there.
C16_StartsAndLoadsLazily ==
    /\ phase # "failed"
    /\ (response.op = "predict" /\ response.before >= WindowLength)
          => /\ ~response.invoked => ~response.raised
             /\ (~response.invoked \/ response.result.action \in {"no_model", "model_error"})
                   => (model = NoModel /\ recognizer.model = NoModel)

\* The elements from..(from + n - 1) of vector v are all the value x
Range(v, from, n, x) == \A k \in from..(from + n - 1) : v[k] = x

\* The coordinates the hands-only extractor writes for the hands of one side:
\* those of the last of the first two hands that is of that side, 0 if none
SideOf(hand) == IF hand.label = "Left" THEN "Left" ELSE "Right"

HandValue(hands, side) ==
    LET n == Min(Len(hands), 2)
    IN IF n >= 2 /\ SideOf(hands[2]) = side THEN hands[2].xy
       ELSE IF n >= 1 /\ SideOf(hands[1]) = side THEN hands[1].xy
       ELSE 0

C18_NewCandidateCountsOne ==
    [][(Stabilized /\ HighTick' /\ ~response'.raised)
         => LET label == classes_[TopIndex' + 1]
            IN IF label = recognizer.last_prediction
               THEN /\ recognizer'.last_prediction = label
                    /\ recognizer'.prediction_stability = recognizer.prediction_stability + 1
               ELSE /\ recognizer'.last_prediction = label
                    /\ recognizer'.prediction_stability = 1]_vars

C20_CountersStayInRange ==
    /\ [](/\ recognizer.prediction_stability >= 0
          /\ recognizer.cooldown_period >= 0
          /\ recognizer.cooldown_period <= cooldown_threshold)
    /\ [][(Stabilized /\ Ticked' /\ ~response'.raised /\ ~Emitted')
            => /\ response'.before >= max_frames
               /\ recognizer'.cooldown_period =
                     IF recognizer.cooldown_period > 0
                     THEN recognizer.cooldown_period - 1 ELSE 0]_vars

\* C20 witness: a tick below the threshold right after an emission, the
\* cooldown one below cooldown_threshold.
C20_CooldownCountsDown ==
    /\ Stabilized /\ LowTick /\ ever.emitted
    /\ recognizer.prediction_stability >= stable_threshold
    /\ recognizer.cooldown_period = cooldown_threshold - 1

\* C21: after the construction or a reset of the recognizer no predict emits
\* a label before stable_threshold ticks have had a confidence at or above
\* the threshold: the first stable_threshold - 1 ticks emit nothing.
C21_NoEmissionBeforeThresholdTicks ==
    (Stabilized /\ response.op = "predict" /\ ~response.raised)
        => /\ streak.high < stable_threshold => response.result = Result(None, 0, <<>>, FALSE)
           /\ Emitted => streak.high >= stable_threshold

\* C21 witness: the earliest emission after a reset, on a streak of one label
C21_FirstEmissionAfterReset ==
    /\ Stabilized /\ Emitted /\ ever.reset
    /\ streak.label \in Labels /\ ~streak.low
    /\ streak.high = stable_threshold + 1

\* C22 (as claimed): in the server, whenever make_prediction runs the
\* classifier, normalization_params is set (to the file's parameters or to
\* the default mean 0 and std 1), also after a load that failed part-way.
C22_ParamsSetBeforePrediction ==
    (program = "server" /\ response.op = "predict" /\ response.invoked)
        => /\ normalization_params.loaded
           /\ normalization_params \in {DefaultParams, FileParams}

C24_EmissionConditions ==
    (Stabilized /\ response.op = "predict" /\ ~response.raised)
        => IF Emitted
           THEN /\ Ticked
                /\ TopIndex < Len(classes_)
                /\ response.result.action = classes_[TopIndex + 1]
                /\ response.result.confidence = TopConfidence
                /\ TopConfidence >= confidence_threshold
                /\ response.result.action = recognizer.last_prediction
                /\ recognizer.prediction_stability >= stable_threshold
                /\ response.before >= max_frames
           ELSE response.result = Result(None, 0, <<>>, FALSE)

\* C24 witness: an emission of label A at 90 percent while B and C score 5
C24_EmittedTopLabel ==
    /\ Stabilized /\ Emitted
    /\ response.scores = <<90, 5, 5>>
    /\ response.result.action = "A"

\* C25: a predict of the recognizer on a buffer of fewer than max_frames
\* frames does not run the classifier, returns (None, 0.0) and leaves
\* last_prediction, prediction_stability, cooldown_period and the buffer
\* as they were.
C25_ShortBufferPredictIsNoTick ==
    [][(Stabilized /\ response'.op = "predict" /\ Len(recognizer.frame_buffer) < max_frames)
         => /\ recognizer'.last_prediction = recognizer.last_prediction
            /\ recognizer'.prediction_stability = recognizer.prediction_stability
            /\ recognizer'.cooldown_period = recognizer.cooldown_period
            /\ recognizer'.frame_buffer = recognizer.frame_buffer
            /\ ~response'.invoked /\ ~response'.raised
            /\ response'.result = Result(None, 0, <<>>, FALSE)
            /\ streak' = streak]_vars

\* C25 witness: a predict on a buffer that holds one frame, pushed after a
\* reset that followed an emission
C25_PredictOnRefillingBuffer ==
    /\ Stabilized /\ response.op = "predict"
    /\ response.before = max_frames - 1 /\ response.before > 0
    /\ ever.emitted /\ ever.reset

\* C26: in the simple programs a predict leaves the sequence buffer as it
\* was, whatever it answers, so a predict that follows a predict is answered
\* from the same window.
C26_PredictKeepsBuffer ==
    /\ [][(Simple /\ response'.op = "predict") => sequence_buffer' = sequence_buffer]_vars
    /\ []((Simple /\ response.op = "predict") => Len(sequence_buffer) = response.before)

\* C26 witness: the server answered a label from a full buffer
C26_LabelFromFullBuffer ==
    /\ program = "server" /\ response.op = "predict"
    /\ response.result.action \in Labels
    /\ Len(sequence_buffer) = SEQUENCE_LENGTH
    /\ sequence_buffer[1] # sequence_buffer[SEQUENCE_LENGTH]

\* The last call was an ingest of an image that could not be decoded
FailedIngest == response.op = "ingest" /\ response.dim = 0

\* C27: an ingest that fails before the push (the image cannot be decoded)
\* is answered with an error and leaves the buffer, its length and its
\* contents, as it was before the request, in all three programs.
C27_FailedIngestKeepsBuffer ==
    /\ [][FailedIngest'
            => /\ sequence_buffer' = sequence_buffer
               /\ recognizer' = recognizer
               /\ ingested' = ingested]_vars
    /\ [](FailedIngest => response.raised /\ Len(Buffer) = response.before)
    /\ []((response.op = "ingest" /\ response.raised) => FailedIngest)

\* C27 witness: the server failed to decode an image posted while its buffer
\* held one frame
C27_FailedIngestOnPartBuffer ==
    /\ program = "server" /\ FailedIngest /\ response.raised
    /\ response.before = 1 /\ Len(sequence_buffer) = 1

\* C28: a buffer of length L stays at length L under every ingest and
\* predict; only a reset shortens the buffer, and after a reset a predict
\* that returns gets past the length test exactly if L vectors were pushed
\* since (before that it answers insufficient_data, the recognizer (None, 0.0)).
C28_FullBufferStaysFull ==
    /\ [][(Len(Buffer) = WindowLength /\ response'.op # "reset")
            => Len(Buffer') = WindowLength]_vars
    /\ [][Len(Buffer') < Len(Buffer) => response'.op = "reset"]_vars
    /\ [](response.op = "reset" => Buffer = <<>>)
    /\ [](Len(Buffer) = Min(Len(ingested), WindowLength))
    /\ []((response.op = "predict" /\ ~response.raised)
            => IF Len(ingested) < WindowLength
               THEN /\ ~response.invoked
                    /\ response.result.action = IF program = "recognizer" THEN None
                                                ELSE "insufficient_data"
               ELSE response.result.action # "insufficient_data"
                    /\ (program = "recognizer" => response.invoked))

\* C28 witness: the recognizer ran the classifier on a buffer refilled with
\* exactly max_frames frames after a reset
C28_RefilledAfterReset ==
    /\ Stabilized /\ Ticked /\ ever.reset
    /\ Len(ingested) = max_frames
    /\ Len(recognizer.frame_buffer) = max_frames

\* C29: in the server, once model is loaded no request sets it back to None,
\* replaces it or changes normalization_params, and make_prediction calls
\* load_model only while model is None (and the buffer is full).
C29_ModelLifecycleIsMonotone ==
    /\ [][(program = "server" /\ model.loaded)
            => /\ model' = model
               /\ normalization_params' = normalization_params]_vars
    /\ [](program = "server"
            => \A env \in Env :
                  LET r == server_make_prediction(model, normalization_params,
                                                  sequence_buffer, env, Raises)
                  IN /\ r.loads = 1 <=> (model = NoModel
                                           /\ Len(sequence_buffer) >= SEQUENCE_LENGTH)
                     /\ model.loaded => /\ r.model = model
                                        /\ r.normalization_params = normalization_params)

\* C29 witness: a reset of the server after it answered a label, its model
\* loaded without normalization parameters
C29_ResetWithModelLoaded ==
    /\ program = "server" /\ response.op = "reset"
    /\ model.loaded /\ ~normalization_params.loaded
    /\ ever.emitted

\* C30: with /predict/frame, /predict and /reset requests of the server
\* interleaved in any way, reading an upload touches no global, every request
\* finds and leaves a buffer of at most L vectors, and the buffer is always
\* the last min(k, L) vectors in the order in which their process_frame
\* calls ran, k counting the calls since the last reset.
C30_HandlersRunWithoutSuspension ==
    /\ [](Len(sequence_buffer) <= SEQUENCE_LENGTH)
    /\ [](sequence_buffer = Suffix(ingested, Min(Len(ingested), SEQUENCE_LENGTH)))
    /\ [](response.before <= SEQUENCE_LENGTH)
    /\ []((response.op = "ingest" /\ ~response.raised)
            => response.frame_index = Min(response.before + 1, SEQUENCE_LENGTH))
    /\ []((response.op = "predict" /\ response.invoked)
            => response.before = SEQUENCE_LENGTH)
    /\ [][Len(inflight') > Len(inflight)
            => UNCHANGED <<sequence_buffer, model, normalization_params, response>>]_vars
    /\ [][response'.op = "reset" => sequence_buffer' = <<>>]_vars

\* C30 witness: the server ran the classifier while an upload was being read,
\* after a reset that came between two pushes
C30_PredictWhileUploadInFlight ==
    /\ program = "server" /\ Ticked
    /\ inflight # <<>>
    /\ ever.reset
    /\ Len(sequence_buffer) = SEQUENCE_LENGTH

====
